---- MODULE Spec2Model ----
(***************************************************************************)
(* Model of the AYLIEN Text API client (src/textapi.js).                   *)
(*                                                                         *)
(* A client holds one options object (this._options).  Each of its twelve  *)
(* operations normalizes its argument (a bare string or a mapping object), *)
(* merges it with the options and an endpoint default, optionally renames  *)
(* a field, and hands the parameters to createAPIRequest together with a   *)
(* requirement rule and the completion callback.                           *)
(*                                                                         *)
(* JavaScript values are modelled as follows.  A string is a sequence of   *)
(* one-character strings, so that the URL test is computed character by    *)
(* character; the empty sequence is the empty (falsy) string.  A mapping   *)
(* (a JavaScript object) is a function from a finite set of keys to        *)
(* values.  Objects have identity: the mapping object the caller keeps and *)
(* may pass to several calls lives in heap, the options object of each     *)
(* client lives in options.  The options object belongs to the client: the *)
(* caller does not pass it as the argument of a call.                      *)
(*                                                                         *)
(* lib/util.js (extend) and lib/apirequest.js (createAPIRequest) are       *)
(* required by src/textapi.js but are not part of the available source;    *)
(* they are modelled from the specification of the Normalizer's merge and  *)
(* of the Request Dispatcher.                                              *)
(***************************************************************************)
EXTENDS Integers, Sequences, FiniteSets, TLC

VARIABLES
  options,   \* client -> the mapping held by this._options
  created,   \* client -> the options as passed to the constructor (history)
  heap,      \* current contents of the mapping object the caller keeps
  written,   \* contents of that object as the caller wrote them (history)
  call,      \* the most recent operation call and what has come of it
  norm       \* the most recent direct call of normalizeParams

vars == <<options, created, heap, written, call, norm>>

(***************************************************************************)
(* Bounds.                                                                 *)
(***************************************************************************)
MaxTail == 1       \* length of the tail appended to a string prefix

Clients == {"A", "B"}

(***************************************************************************)
(* JavaScript values.                                                      *)
(***************************************************************************)
EmptyMap == [k \in {} |-> <<>>]

Truthy(m, k) == k \in DOMAIN m /\ m[k] # <<>>

Delete(m, k) == [x \in (DOMAIN m) \ {k} |-> m[x]]

Assign(m, k, v) == [x \in (DOMAIN m) \cup {k} |-> IF x = k THEN v ELSE m[x]]

HasPrefix(s, p) == Len(s) >= Len(p) /\ SubSeq(s, 1, Len(p)) = p

LowerChar(c) ==
  CASE c = "H" -> "h" [] c = "T" -> "t" [] c = "P" -> "p" [] c = "S" -> "s"
    [] OTHER -> c

ToLower(s) == [i \in 1..Len(s) |-> LowerChar(s[i])]

Contains(s, p) == \E i \in 1..Len(s) : HasPrefix(SubSeq(s, i, Len(s)), p)

\* Variants of the URL test: the pattern without its anchor, and the pattern
\* with the ignore-case flag.
MatchesUrlPattern_unanchored(s) ==
  \/ Contains(s, <<"h", "t", "t", "p", ":", "/", "/">>)
  \/ Contains(s, <<"h", "t", "t", "p", "s", ":", "/", "/">>)

MatchesUrlPattern_ignoreCase(s) ==
  \/ HasPrefix(ToLower(s), <<"h", "t", "t", "p", ":", "/", "/">>)
  \/ HasPrefix(ToLower(s), <<"h", "t", "t", "p", "s", ":", "/", "/">>)

\* param.match('^https?://'): a RegExp built from a string has no flags, so
\* the test is anchored at the start and case-sensitive.
MatchesUrlPattern(s) ==
  \/ HasPrefix(s, <<"h", "t", "t", "p", ":", "/", "/">>)
  \/ HasPrefix(s, <<"h", "t", "t", "p", "s", ":", "/", "/">>)

(***************************************************************************)
(* lib/util.js, extend(a, b): the merge of the Normalizer.  The fields of  *)
(* a take precedence on a key collision, the fields of b fill in what a    *)
(* lacks, and b is left as it was.  The merge is made in the object a,     *)
(* which is also the value returned: the callers below pass a fresh        *)
(* literal as a wherever they need a new object, and the caller's own      *)
(* mapping where it is "used as-is".  The operator gives the contents of a *)
(* after the call.                                                         *)
(***************************************************************************)
extend(a, b) ==
  [k \in (DOMAIN a) \cup (DOMAIN b) |-> IF k \in DOMAIN a THEN a[k] ELSE b[k]]

(***************************************************************************)
(* The argument of a call: a bare string or a mapping object.              *)
(***************************************************************************)
StringParam(s) == [type |-> "string", str |-> s, map |-> EmptyMap]
ObjectParam(m) == [type |-> "object", str |-> <<>>, map |-> m]

\* Variant of normalizeParams with the arguments of the merge exchanged.
normalizeParams_swapped(param, _options) ==
  LET m == IF param.type = "string"
           THEN IF MatchesUrlPattern(param.str)
                THEN [url |-> param.str]
                ELSE [text |-> param.str]
           ELSE param.map
  IN [ret |-> extend(_options, m), arg |-> param.map, opts |-> extend(_options, m)]

(***************************************************************************)
(* this.normalizeParams(param), lines 41-51.  ret is the value returned,   *)
(* arg the contents of the param object and opts the contents of           *)
(* this._options when the method returns.                                  *)
(***************************************************************************)
normalizeParams(param, _options) ==
  IF param.type = "string"
  THEN IF MatchesUrlPattern(param.str)
       THEN [ret |-> extend([url |-> param.str], _options), arg |-> param.map,
             opts |-> _options]
       ELSE [ret |-> extend([text |-> param.str], _options), arg |-> param.map,
             opts |-> _options]
  ELSE [ret |-> extend(param.map, _options), arg |-> extend(param.map, _options),
        opts |-> _options]

(***************************************************************************)
(* Requirement rules: a plain field name, a group of alternative names, or *)
(* a sequence of sub-rules.                                                *)
(***************************************************************************)
Plain(n) == [shape |-> "name", names |-> {n}, subs |-> <<>>]
Group(S) == [shape |-> "group", names |-> S, subs |-> <<>>]
Sequence(ss) == [shape |-> "sequence", names |-> {}, subs |-> ss]

Endpoint(e) == [endpoint |-> <<e>>]

(***************************************************************************)
(* The operations.  Each gives what the method does up to its last         *)
(* statement: the parameters it builds, whether it invokes the callback    *)
(* itself (preError), whether it calls createAPIRequest (dispatch) and     *)
(* with which rule, and whether it throws.                                 *)
(***************************************************************************)
Effect(n, p, rule) ==
  [norm |-> n, params |-> p, rule |-> rule,
   preError |-> FALSE, dispatch |-> TRUE, throws |-> FALSE]

\* Variant of the renaming that does not look at the target field.
Rename_overwrite(p, from, to) ==
  IF Truthy(p, from)
  THEN Delete(Assign(p, to, p[from]), from)
  ELSE p

\* if (params.text && !params.to) { params.to = params.text; delete(params.text); }
Rename(p, from, to) ==
  IF Truthy(p, from) /\ ~Truthy(p, to)
  THEN Delete(Assign(p, to, p[from]), from)
  ELSE p

sentiment(params, _options) ==
  LET n == normalizeParams(params, _options)
  IN Effect(n, extend(Endpoint("sentiment"), n.ret), Sequence(<<Group({"text", "url"})>>))

extract(params, _options) ==
  LET n == normalizeParams(params, _options)
      p == extend(Endpoint("extract"), n.ret)
  IN Effect(n, Rename(p, "text", "html"), Sequence(<<Group({"url", "html"})>>))

language(params, _options) ==
  LET n == normalizeParams(params, _options)
  IN Effect(n, extend(Endpoint("language"), n.ret), Sequence(<<Group({"text", "url"})>>))

classify(params, _options) ==
  LET n == normalizeParams(params, _options)
  IN Effect(n, extend(Endpoint("classify"), n.ret), Sequence(<<Group({"text", "url"})>>))

\* Variant of unsupervisedClassify whose rule omits 'class'.
unsupervisedClassify_noClass(params, _options) ==
  LET n == normalizeParams(params, _options)
  IN Effect(n, extend(Endpoint("classify/unsupervised"), n.ret),
            Sequence(<<Group({"text", "url"})>>))

unsupervisedClassify(params, _options) ==
  LET n == normalizeParams(params, _options)
  IN Effect(n, extend(Endpoint("classify/unsupervised"), n.ret),
            Sequence(<<Group({"text", "url"}), Plain("class")>>))

concepts(params, _options) ==
  LET n == normalizeParams(params, _options)
  IN Effect(n, extend(Endpoint("concepts"), n.ret), Sequence(<<Group({"text", "url"})>>))

entities(params, _options) ==
  LET n == normalizeParams(params, _options)
  IN Effect(n, extend(Endpoint("entities"), n.ret), Sequence(<<Group({"text", "url"})>>))

hashtags(params, _options) ==
  LET n == normalizeParams(params, _options)
  IN Effect(n, extend(Endpoint("hashtags"), n.ret), Sequence(<<Group({"text", "url"})>>))

\* Variants of summarize: without the else, with a precondition that fails
\* only when all three fields are missing, and throwing the error.
summarize_fallthrough(params, _options) ==
  LET n == normalizeParams(params, _options)
      p == extend(Endpoint("summarize"), n.ret)
      unmet == ~Truthy(p, "url") /\ (~Truthy(p, "text") \/ ~Truthy(p, "title"))
  IN [norm |-> n, params |-> p, rule |-> Sequence(<<>>),
      preError |-> unmet, dispatch |-> TRUE, throws |-> FALSE]

summarize_anyField(params, _options) ==
  LET n == normalizeParams(params, _options)
      p == extend(Endpoint("summarize"), n.ret)
      unmet == ~Truthy(p, "url") /\ ~Truthy(p, "text") /\ ~Truthy(p, "title")
  IN [norm |-> n, params |-> p, rule |-> Sequence(<<>>),
      preError |-> unmet, dispatch |-> ~unmet, throws |-> FALSE]

summarize_throws(params, _options) ==
  LET n == normalizeParams(params, _options)
      p == extend(Endpoint("summarize"), n.ret)
      unmet == ~Truthy(p, "url") /\ (~Truthy(p, "text") \/ ~Truthy(p, "title"))
  IN [norm |-> n, params |-> p, rule |-> Sequence(<<>>),
      preError |-> FALSE, dispatch |-> ~unmet, throws |-> unmet]

summarize(params, _options) ==
  LET n == normalizeParams(params, _options)
      p == extend(Endpoint("summarize"), n.ret)
      unmet == ~Truthy(p, "url") /\ (~Truthy(p, "text") \/ ~Truthy(p, "title"))
  IN [norm |-> n, params |-> p, rule |-> Sequence(<<>>),
      preError |-> unmet, dispatch |-> ~unmet, throws |-> FALSE]

related(params, _options) ==
  LET n == normalizeParams(params, _options)
      p == extend(Endpoint("related"), n.ret)
  IN Effect(n, Rename(p, "text", "phrase"), Plain("phrase"))

microformats(params, _options) ==
  LET n == normalizeParams(params, _options)
  IN Effect(n, extend(Endpoint("microformats"), n.ret), Plain("url"))

imageTags(params, _options) ==
  LET n == normalizeParams(params, _options)
  IN Effect(n, extend(Endpoint("image-tags"), n.ret), Plain("url"))

(***************************************************************************)
(* lib/apirequest.js, createAPIRequest(params, requiredParams, callback):  *)
(* the Request Dispatcher.  Validation: a plain name is satisfied iff the  *)
(* parameters hold it with a non-empty value, a group iff one of its       *)
(* alternatives is satisfied, a sequence iff every sub-rule is; the empty  *)
(* sequence holds trivially.  A failed validation invokes the callback     *)
(* with an error before returning and issues no request; otherwise exactly *)
(* one request is issued and its outcome is delivered later.               *)
(***************************************************************************)
SatisfiedLeaf(rule, params) == \E n \in rule.names : Truthy(params, n)

checkRequired(rule, params) ==
  IF rule.shape = "sequence"
  THEN \A i \in 1..Len(rule.subs) : SatisfiedLeaf(rule.subs[i], params)
  ELSE SatisfiedLeaf(rule, params)

createAPIRequest(params, requiredParams) ==
  IF checkRequired(requiredParams, params)
  THEN [cbError |-> FALSE, request |-> TRUE]
  ELSE [cbError |-> TRUE, request |-> FALSE]

(***************************************************************************)
(* Inputs.                                                                 *)
(***************************************************************************)
Str(c) == <<c>>

UrlLower == <<"h", "t", "t", "p", ":", "/", "/", "a">>

Config1 == [application_id |-> <<"i", "1">>, application_key |-> <<"k", "1">>]
Config2 == [application_id |-> <<"i", "2">>, application_key |-> <<"k", "2">>,
            https |-> Str("false")]

\* Options a client can be constructed with; EmptyMap is `options || {}`.
Configs == {EmptyMap, Config1, Config2}

\* Mappings a caller can write.
MapSamples ==
  { EmptyMap,
    [text |-> Str("a")],
    [text |-> Str("a"), title |-> Str("t")],
    [text |-> Str("a"), html |-> Str("b"), phrase |-> Str("p")],
    [text |-> Str("a"), html |-> <<>>, class |-> Str("c")],
    [url |-> UrlLower, text |-> <<>>, application_id |-> <<"i", "9">>] }

\* Bare strings passed to the operations.
CallStrings == { Str("a"), UrlLower }

\* The argument of a call: a bare string, or the caller's mapping object.
CallParams == { [type |-> "string", str |-> s] : s \in CallStrings }
                \cup { [type |-> "object", str |-> <<>>] }

\* The argument as the operation sees it, and as the caller wrote it.
Seen(in) == IF in.type = "string" THEN StringParam(in.str) ELSE ObjectParam(heap)
Fresh(in) == IF in.type = "string" THEN StringParam(in.str) ELSE ObjectParam(written)

\* Bare strings passed to normalizeParams: a prefix followed by a short tail.
Prefixes ==
  { <<>>,
    <<"h", "t", "t", "p", ":", "/", "/">>,
    <<"h", "t", "t", "p", "s", ":", "/", "/">>,
    <<"H", "T", "T", "P", ":", "/", "/">>,
    <<"H", "t", "t", "p", "s", ":", "/", "/">>,
    <<"h", "t", "t", "p", ":", "/">>,
    <<"h", "t", "t", "p", "s", "s", ":", "/", "/">>,
    <<"f", "t", "p", ":", "/", "/">>,
    <<"a", "h", "t", "t", "p", ":", "/", "/">> }

TailChars == {"a", "/"}

Tails == {<<>>} \cup UNION { [1..n -> TailChars] : n \in 1..MaxTail }

NormStrings == { p \o t : p \in Prefixes, t \in Tails }

(***************************************************************************)
(* State.                                                                  *)
(***************************************************************************)
NoEffect == Effect([ret |-> EmptyMap, arg |-> EmptyMap, opts |-> EmptyMap],
                   EmptyMap, Sequence(<<>>))

NoCall ==
  [op |-> "none", client |-> "A", cbGiven |-> FALSE,
   seen |-> StringParam(<<>>), fresh |-> StringParam(<<>>), config |-> EmptyMap,
   eff |-> NoEffect, dispatched |-> FALSE, state |-> "none", threw |-> FALSE,
   syncCb |-> 0, cb |-> 0, err |-> 0, res |-> 0, net |-> 0]

NoNorm ==
  [client |-> "none", param |-> StringParam(<<>>), config |-> EmptyMap,
   out |-> [ret |-> EmptyMap, arg |-> EmptyMap, opts |-> EmptyMap]]

\* Two clients constructed with different options.
Init ==
  /\ options = [A |-> Config1, B |-> Config2]
  /\ created = options
  /\ heap \in MapSamples
  /\ written = heap
  /\ call = NoCall
  /\ norm = NoNorm

(***************************************************************************)
(* One call of an operation, from entry to return.  eff is what the method *)
(* body does; the statements run in order, and an invocation of a callback *)
(* that is not a function throws a TypeError out of the call.              *)
(*   syncCb  callback invocations made before the call returned            *)
(*   cb, err, res  invocations so far, and how many carried an error or a  *)
(*                 result                                                  *)
(*   net     network requests issued                                       *)
(*   state   "returned" (over, no request outstanding), "pending" (request *)
(*           outstanding), or the outcome of the request once delivered    *)
(***************************************************************************)
Perform(op, c, in, cb, eff) ==
  LET preCb == ~eff.throws /\ eff.preError
      dispatched == ~eff.throws /\ (eff.preError => cb) /\ eff.dispatch
      req == createAPIRequest(eff.params, eff.rule)
      valCb == dispatched /\ req.cbError
      issued == dispatched /\ req.request
      attempts == (IF preCb THEN 1 ELSE 0) + (IF valCb THEN 1 ELSE 0)
      delivered == IF cb THEN attempts ELSE 0
  IN /\ options' = [options EXCEPT ![c] = eff.norm.opts]
     /\ heap' = IF in.type = "object" THEN eff.norm.arg ELSE heap
     /\ call' = [op |-> op, client |-> c, cbGiven |-> cb,
                 seen |-> Seen(in), fresh |-> Fresh(in), config |-> options[c],
                 eff |-> eff, dispatched |-> dispatched,
                 state |-> IF issued THEN "pending" ELSE "returned",
                 threw |-> eff.throws \/ (attempts > 0 /\ ~cb),
                 syncCb |-> delivered, cb |-> delivered, err |-> delivered,
                 res |-> 0, net |-> IF issued THEN 1 ELSE 0]
     /\ UNCHANGED <<created, written, norm>>

Sentiment ==
  \E c \in Clients, in \in CallParams, cb \in BOOLEAN :
    Perform("sentiment", c, in, cb, sentiment(Seen(in), options[c]))

Extract ==
  \E c \in Clients, in \in CallParams, cb \in BOOLEAN :
    Perform("extract", c, in, cb, extract(Seen(in), options[c]))

Language ==
  \E c \in Clients, in \in CallParams, cb \in BOOLEAN :
    Perform("language", c, in, cb, language(Seen(in), options[c]))

Classify ==
  \E c \in Clients, in \in CallParams, cb \in BOOLEAN :
    Perform("classify", c, in, cb, classify(Seen(in), options[c]))

UnsupervisedClassify ==
  \E c \in Clients, in \in CallParams, cb \in BOOLEAN :
    Perform("unsupervisedClassify", c, in, cb, unsupervisedClassify(Seen(in), options[c]))

Concepts ==
  \E c \in Clients, in \in CallParams, cb \in BOOLEAN :
    Perform("concepts", c, in, cb, concepts(Seen(in), options[c]))

Entities ==
  \E c \in Clients, in \in CallParams, cb \in BOOLEAN :
    Perform("entities", c, in, cb, entities(Seen(in), options[c]))

Hashtags ==
  \E c \in Clients, in \in CallParams, cb \in BOOLEAN :
    Perform("hashtags", c, in, cb, hashtags(Seen(in), options[c]))

Summarize ==
  \E c \in Clients, in \in CallParams, cb \in BOOLEAN :
    Perform("summarize", c, in, cb, summarize(Seen(in), options[c]))

Related ==
  \E c \in Clients, in \in CallParams, cb \in BOOLEAN :
    Perform("related", c, in, cb, related(Seen(in), options[c]))

Microformats ==
  \E c \in Clients, in \in CallParams, cb \in BOOLEAN :
    Perform("microformats", c, in, cb, microformats(Seen(in), options[c]))

ImageTags ==
  \E c \in Clients, in \in CallParams, cb \in BOOLEAN :
    Perform("imageTags", c, in, cb, imageTags(Seen(in), options[c]))

(***************************************************************************)
(* The outcome of the issued request (Request Dispatcher, response         *)
(* handling): a transport failure, a body that does not parse, or a        *)
(* decoded body.  Each invokes the callback once, with an error or with a  *)
(* result; a callback that is not a function cannot be invoked.            *)
(***************************************************************************)
Deliver(outcome, error) ==
  /\ call.state = "pending"
  /\ call' = [call EXCEPT !.state = outcome,
                          !.cb = IF call.cbGiven THEN @ + 1 ELSE @,
                          !.err = IF error /\ call.cbGiven THEN @ + 1 ELSE @,
                          !.res = IF ~error /\ call.cbGiven THEN @ + 1 ELSE @]
  /\ UNCHANGED <<options, created, heap, written, norm>>

TransportError == Deliver("transport error", TRUE)

DecodeError == Deliver("decode error", TRUE)

DecodedResponse == Deliver("decoded", FALSE)

Next ==
  \/ Sentiment
  \/ Extract
  \/ Language
  \/ Classify
  \/ UnsupervisedClassify
  \/ Concepts
  \/ Entities
  \/ Hashtags
  \/ Summarize
  \/ Related
  \/ Microformats
  \/ ImageTags
  \/ TransportError
  \/ DecodeError
  \/ DecodedResponse

Spec == Init /\ [][Next]_vars

(***************************************************************************)
(* normalizeParams called directly (it is a public method of the client),  *)
(* on every kind of bare string and on the caller's mapping object.        *)
(***************************************************************************)
NormMaps ==
  MapSamples \cup
  { [text |-> Str("a"), application_key |-> <<>>, https |-> Str("true")],
    [application_id |-> <<"i", "1">>, language |-> Str("e")] }

NormInit ==
  /\ options \in [Clients -> Configs]
  /\ created = options
  /\ heap \in NormMaps
  /\ written = heap
  /\ call = NoCall
  /\ norm = NoNorm

Normalize(c, param) ==
  LET out == normalizeParams(param, options[c])
  IN /\ norm' = [client |-> c, param |-> param, config |-> options[c], out |-> out]
     /\ options' = [options EXCEPT ![c] = out.opts]
     /\ heap' = IF param.type = "object" THEN out.arg ELSE heap
     /\ UNCHANGED <<created, written, call>>

NormalizeString == \E c \in Clients, s \in NormStrings : Normalize(c, StringParam(s))

NormalizeObject == \E c \in Clients : Normalize(c, ObjectParam(heap))

\* The caller writes a new mapping into its variable.
CallerWrite ==
  \E m \in NormMaps :
    /\ heap' = m
    /\ written' = m
    /\ UNCHANGED <<options, created, call, norm>>

NormNext ==
  \/ NormalizeString
  \/ NormalizeObject
  \/ CallerWrite

NormSpec == NormInit /\ [][NormNext]_vars

(***************************************************************************)
(* Properties.                                                             *)
(***************************************************************************)
Made == call.op # "none"

Normalized == norm.client # "none"

\* The URL pattern ^https?:// read off a string character by character.
IsHttpUrl(s) ==
  /\ Len(s) >= 7
  /\ s[1] = "h" /\ s[2] = "t" /\ s[3] = "t" /\ s[4] = "p"
  /\ \/ s[5] = ":" /\ s[6] = "/" /\ s[7] = "/"
     \/ Len(s) >= 8 /\ s[5] = "s" /\ s[6] = ":" /\ s[7] = "/" /\ s[8] = "/"

Holds(p, k, v) == k \in DOMAIN p /\ p[k] = v

\* The requirement of each operation on the parameters it dispatches.
Required(op, p) ==
  CASE op \in {"sentiment", "language", "classify", "concepts", "entities", "hashtags"} ->
         Truthy(p, "text") \/ Truthy(p, "url")
    [] op = "unsupervisedClassify" ->
         (Truthy(p, "text") \/ Truthy(p, "url")) /\ Truthy(p, "class")
    [] op = "extract" -> Truthy(p, "url") \/ Truthy(p, "html")
    [] op = "related" -> Truthy(p, "phrase")
    [] op \in {"microformats", "imageTags"} -> Truthy(p, "url")
    [] OTHER -> TRUE

\* The callback has been invoked exactly once so far, with an error and no result.
OneError == call.cb = 1 /\ call.err = 1 /\ call.res = 0

\* C1: a call with a callback function never has the callback invoked more
\* than once; while its request is outstanding the callback has not been
\* invoked; once the call is over (it returned without issuing a request, or
\* the outcome of its request was delivered) the callback has been invoked
\* exactly once, with either an error or a result.
C1_ExactlyOneCallback ==
  Made /\ call.cbGiven =>
    /\ call.cb <= 1
    /\ call.state = "pending" => call.cb = 0
    /\ call.state # "pending" => call.cb = 1 /\ call.err + call.res = 1

C1_Witness ==
  /\ call.op = "summarize" /\ call.cbGiven
  /\ call.state = "decoded" /\ call.cb = 1 /\ call.res = 1

\* C2: summarize calls createAPIRequest iff the merged parameters hold a
\* non-empty url, or a non-empty text and a non-empty title; otherwise the
\* callback is invoked with the precondition error and no request is issued.
SummarizeMet(p) == Truthy(p, "url") \/ (Truthy(p, "text") /\ Truthy(p, "title"))

C2_SummarizePrecondition ==
  call.op = "summarize" /\ call.cbGiven =>
    /\ call.dispatched <=> SummarizeMet(call.eff.params)
    /\ ~SummarizeMet(call.eff.params) =>
         /\ call.eff.preError /\ OneError /\ call.syncCb = 1
         /\ call.net = 0 /\ call.state = "returned"

C2_Witness ==
  /\ call.op = "summarize" /\ call.cbGiven
  /\ Truthy(call.eff.params, "text") /\ "title" \notin DOMAIN call.eff.params
  /\ ~call.dispatched /\ call.err = 1 /\ call.net = 0

\* C3: a call that reaches createAPIRequest with parameters that do not meet
\* the operation's requirement has its callback invoked once, before the call
\* returns, with an error and no result, and issues no request; when the
\* requirement is met exactly one request is issued and the callback is not
\* invoked before the call returns.
C3_Validation ==
  Made /\ call.dispatched /\ call.cbGiven =>
    IF Required(call.op, call.eff.params)
    THEN call.net = 1 /\ call.syncCb = 0
    ELSE OneError /\ call.syncCb = 1 /\ call.net = 0 /\ call.state = "returned"

C3_Witness ==
  /\ call.op = "unsupervisedClassify" /\ call.dispatched /\ call.cbGiven
  /\ Truthy(call.eff.params, "text") /\ "class" \notin DOMAIN call.eff.params
  /\ OneError /\ call.syncCb = 1 /\ call.net = 0

\* C4: for a bare string, normalizeParams returns a mapping with url set to
\* the string and no text key when the string matches ^https?://, and with
\* text set to the string and no url key otherwise.
C4_StringClassified ==
  Normalized /\ norm.param.type = "string" =>
    IF IsHttpUrl(norm.param.str)
    THEN Holds(norm.out.ret, "url", norm.param.str) /\ "text" \notin DOMAIN norm.out.ret
    ELSE Holds(norm.out.ret, "text", norm.param.str) /\ "url" \notin DOMAIN norm.out.ret

C4_Witness ==
  /\ Normalized /\ norm.param.type = "string"
  /\ norm.param.str = <<"a", "h", "t", "t", "p", ":", "/", "/", "a">>
  /\ Holds(norm.out.ret, "text", norm.param.str)

\* C5 as stated: a bare string that starts with http:// or https:// in any
\* letter case is classified as a url.
C5_CaseInsensitive ==
  Normalized /\ norm.param.type = "string" /\ IsHttpUrl(ToLower(norm.param.str)) =>
    Holds(norm.out.ret, "url", norm.param.str) /\ "text" \notin DOMAIN norm.out.ret

\* C5 amended: the test is case-sensitive.  A bare string that starts with
\* the scheme in lower case is classified as a url; one that starts with
\* http:// or https:// written with any upper-case letter is classified as
\* text.
C5_CaseSensitive ==
  Normalized /\ norm.param.type = "string" /\ IsHttpUrl(ToLower(norm.param.str)) =>
    IF IsHttpUrl(norm.param.str)
    THEN Holds(norm.out.ret, "url", norm.param.str) /\ "text" \notin DOMAIN norm.out.ret
    ELSE Holds(norm.out.ret, "text", norm.param.str) /\ "url" \notin DOMAIN norm.out.ret

C5_Witness ==
  /\ Normalized /\ norm.param.type = "string"
  /\ norm.param.str = <<"H", "T", "T", "P", ":", "/", "/", "a">>
  /\ Holds(norm.out.ret, "text", norm.param.str)

\* C6: for a mapping, the value normalizeParams returns holds every field of
\* the input with the input's value, every field of the options that the
\* input lacks with the options' value, and so an application_id and an
\* application_key whenever the options have them.
C6_MergePrecedence ==
  Normalized /\ norm.param.type = "object" =>
    /\ \A k \in DOMAIN norm.param.map : Holds(norm.out.ret, k, norm.param.map[k])
    /\ \A k \in (DOMAIN norm.config) \ (DOMAIN norm.param.map) :
         Holds(norm.out.ret, k, norm.config[k])
    /\ \A k \in {"application_id", "application_key"} :
         k \in DOMAIN norm.config => k \in DOMAIN norm.out.ret

C6_Witness ==
  /\ Normalized /\ norm.param.type = "object"
  /\ Holds(norm.param.map, "application_id", <<"i", "9">>)
  /\ Holds(norm.config, "application_id", <<"i", "2">>)
  /\ Holds(norm.out.ret, "application_id", <<"i", "9">>)
  /\ Holds(norm.out.ret, "application_key", <<"k", "2">>)

\* C7: the options of every client are what they were at construction.
C7_OptionsUnchanged == options = created

C7_Witness ==
  /\ call.op = "extract"
  /\ Truthy(call.eff.norm.ret, "text") /\ "text" \notin DOMAIN call.eff.params
  /\ options = created

\* C8: the parameters a call builds are those the operation builds from the
\* input as the caller wrote it and the options of the client it is called on.
OpEffect(op, param, _options) ==
  CASE op = "sentiment" -> sentiment(param, _options)
    [] op = "extract" -> extract(param, _options)
    [] op = "language" -> language(param, _options)
    [] op = "classify" -> classify(param, _options)
    [] op = "unsupervisedClassify" -> unsupervisedClassify(param, _options)
    [] op = "concepts" -> concepts(param, _options)
    [] op = "entities" -> entities(param, _options)
    [] op = "hashtags" -> hashtags(param, _options)
    [] op = "summarize" -> summarize(param, _options)
    [] op = "related" -> related(param, _options)
    [] op = "microformats" -> microformats(param, _options)
    [] OTHER -> imageTags(param, _options)

C9_NeverThrown ==
  Made /\ call.cbGiven =>
    /\ ~call.threw
    /\ call.state = "returned" => call.err = 1

C9_Witness ==
  /\ call.op = "summarize" /\ call.cbGiven /\ call.eff.preError
  /\ ~call.threw /\ call.err = 1 /\ call.seen.type = "string"

\* C10: in extract (target html) and related (target phrase), when the
\* normalized parameters hold a non-empty text and no non-empty target, the
\* dispatched parameters hold the target with the former text value, no text
\* key, every other field as normalized, and the request is issued; otherwise
\* the dispatched parameters hold every normalized field unchanged.
Target(op) == IF op = "extract" THEN "html" ELSE "phrase"

C10_Rename ==
  call.op \in {"extract", "related"} =>
    LET n == call.eff.norm.ret
        p == call.eff.params
        t == Target(call.op)
    IN IF Truthy(n, "text") /\ ~Truthy(n, t)
       THEN /\ Holds(p, t, n["text"]) /\ "text" \notin DOMAIN p
            /\ \A k \in (DOMAIN n) \ {"text", t} : Holds(p, k, n[k])
            /\ call.dispatched /\ call.net = 1
       ELSE \A k \in DOMAIN n : Holds(p, k, n[k])

C10_Witness ==
  /\ call.op = "related" /\ call.seen.type = "string"
  /\ Holds(call.eff.params, "phrase", <<"a">>) /\ "text" \notin DOMAIN call.eff.params
  /\ call.net = 1

====
